---- MODULE Spec2Model ----
(***************************************************************************)
(* Model of the weather proxy service (main.go, weather/data.go).          *)
(*                                                                         *)
(* One server process registers WeatherHandler on /weather.  Each request  *)
(* parses lat and lon, creates a context with a 5 second timeout, spawns   *)
(* a goroutine that runs getWeather and sends its outcome on one of two    *)
(* buffered channels, and selects over ctx.Done(), errCh and ch.           *)
(*                                                                         *)
(* Numbers decoded from JSON are float64 in the program.  Here a number is *)
(* a pair (v, c): v is the integral part and c the fraction in hundredths, *)
(* both carrying the sign of the number, so that the value is v + c/100.   *)
(* Strings are TLA+ strings; formatted output is built digit by digit.     *)
(***************************************************************************)
EXTENDS Integers, Sequences, FiniteSets, TLC

VARIABLES
    alive,      \* the server process is running (FALSE after an unrecovered panic)
    hpc,        \* hpc[r]: position of the handler goroutine of request r
    req,        \* req[r]: the query parameters of request r
    elapsed,    \* elapsed[r]: seconds since the context of request r was created
    wpc,        \* wpc[r]: position of the fetch goroutine of request r
    got,        \* got[r]: what the upstream call of request r returned
    wval,       \* wval[r]: (weatherData, err) held by the fetch goroutine
    ch,         \* ch[r]: the result channel of request r
    errCh,      \* errCh[r]: the error channel of request r
    ret,        \* ret[r]: (weatherData, err) returned by getWeatherWithContext
    resp,       \* resp[r]: the responses written for request r
    hist        \* hist[r]: what was true of request r at its deadline and at its send

vars == <<alive, hpc, req, elapsed, wpc, got, wval, ch, errCh, ret, resp, hist>>

(***************************************************************************)
(* Bounds of the model.                                                    *)
(***************************************************************************)
NumReq == 2
MaxTime == 5

Requests == 1..NumReq

(***************************************************************************)
(* JSON values as produced by encoding/json into interface{}.              *)
(***************************************************************************)
JNull == [t |-> "null"]
JNum(v, c) == [t |-> "number", v |-> v, c |-> c]
JStr(s) == [t |-> "string", s |-> s]
JArr(a) == [t |-> "array", a |-> a]
JObj(m) == [t |-> "object", m |-> m]

\* m[k] on a map[string]interface{}: the zero value (nil) when k is absent.
Index(m, k) == IF k \in DOMAIN m THEN m[k] ELSE JNull

(***************************************************************************)
(* Formatting.                                                             *)
(***************************************************************************)
Digit(d) ==
    CASE d = 0 -> "0" [] d = 1 -> "1" [] d = 2 -> "2" [] d = 3 -> "3"
      [] d = 4 -> "4" [] d = 5 -> "5" [] d = 6 -> "6" [] d = 7 -> "7"
      [] d = 8 -> "8" [] d = 9 -> "9"

RECURSIVE NatToStr(_)
NatToStr(n) == IF n < 10 THEN Digit(n) ELSE NatToStr(n \div 10) \o Digit(n % 10)

\* %v of an int.
IntToStr(n) == IF n < 0 THEN "-" \o NatToStr(-n) ELSE NatToStr(n)

Abs(n) == IF n < 0 THEN -n ELSE n

\* %v of a float64 with at most two decimals: shortest representation.
FloatToStr(x) ==
    LET sign == IF x.v < 0 \/ x.c < 0 THEN "-" ELSE ""
        f == Abs(x.c)
        frac == IF f = 0 THEN ""
                ELSE IF f % 10 = 0 THEN "." \o Digit(f \div 10)
                ELSE "." \o Digit(f \div 10) \o Digit(f % 10)
    IN sign \o NatToStr(Abs(x.v)) \o frac

\* int(f) for a float64 f: the fraction is discarded.
IntOf(x) == x.v

\* Go's integer division truncates toward zero.
GoDiv(a, b) == IF a >= 0 THEN a \div b ELSE -((-a) \div b)

\* temperature <= n for an integer literal n.
FloatLeq(x, n) == x.v < n \/ (x.v = n /\ x.c <= 0)

\* temperature >= n for an integer literal n.
FloatGeq(x, n) == x.v > n \/ (x.v = n /\ x.c >= 0)

(***************************************************************************)
(* The extract helpers.  A failed type assertion or an index out of range  *)
(* panics; Panic stands for that outcome.                                  *)
(***************************************************************************)
Panic == [panic |-> TRUE]
Value(x) == [panic |-> FALSE, val |-> x]

extractWeatherInfo(data) ==
    LET w == Index(data, "weather") IN
    IF w.t # "array" THEN Panic
    ELSE IF Len(w.a) = 0 THEN Panic
    ELSE IF w.a[1].t # "object" THEN Panic
    ELSE LET d == Index(w.a[1].m, "description") IN
    IF d.t # "string" THEN Panic
    ELSE LET mn == Index(data, "main") IN
    IF mn.t # "object" THEN Panic
    ELSE LET tp == Index(mn.m, "temp") IN
    IF tp.t # "number" THEN Panic
    ELSE Value([description |-> d.s, temperature |-> [v |-> tp.v, c |-> tp.c]])

extractVisibility_round(data) ==
    LET vis == Index(data, "visibility") IN
    IF vis.t # "number" THEN Panic
    ELSE Value(IntToStr(GoDiv(IntOf(vis) + 500, 1000)) \o " KM")

extractVisibility(data) ==
    LET vis == Index(data, "visibility") IN
    IF vis.t # "number" THEN Panic
    ELSE Value(IntToStr(GoDiv(IntOf(vis), 1000)) \o " KM")

extractWindInfo(data) ==
    LET windData == Index(data, "wind") IN
    IF windData.t # "object" THEN Panic
    ELSE LET sp == Index(windData.m, "speed")
             dg == Index(windData.m, "deg") IN
    IF sp.t # "number" THEN Panic
    ELSE IF dg.t # "number" THEN Panic
    ELSE Value([speed |-> FloatToStr(sp) \o " meter/sec",
                direction |-> IntToStr(IntOf(dg)) \o " degrees"])

extractCloudCoverage(data) ==
    LET cloudData == Index(data, "clouds") IN
    IF cloudData.t # "object" THEN Panic
    ELSE LET al == Index(cloudData.m, "all") IN
    IF al.t # "number" THEN Panic
    ELSE Value(IntToStr(IntOf(al)) \o " percentage")

\* time.Unix(sec, 0)
TimeUnix(sec) == [sec |-> sec, nsec |-> 0]

extractSunriseSunset(data) ==
    LET sys == Index(data, "sys") IN
    IF sys.t # "object" THEN Panic
    ELSE LET sr == Index(sys.m, "sunrise") IN
    IF sr.t # "number" THEN Panic
    ELSE LET ss == Index(sys.m, "sunset") IN
    IF ss.t # "number" THEN Panic
    ELSE Value([sunrise |-> TimeUnix(IntOf(sr)), sunset |-> TimeUnix(IntOf(ss))])

classifyWeather_strict(temperature) ==
    IF ~FloatGeq(temperature, 10) THEN "cold"
    ELSE IF ~FloatGeq(temperature, 25) THEN "moderate"
    ELSE "hot"

classifyWeather(temperature) ==
    IF FloatLeq(temperature, 10) THEN "cold"
    ELSE IF FloatLeq(temperature, 25) THEN "moderate"
    ELSE "hot"

(***************************************************************************)
(* What the provider can answer to http.Get: a transport failure, or a     *)
(* body that is either not JSON at all (json = << >>) or one JSON value.   *)
(***************************************************************************)
TransportFailure == [kind |-> "transport"]
Body(j) == [kind |-> "body", json |-> j]
Malformed == Body(<< >>)

ErrTransport == "Get: dial tcp: connection refused"
ErrDecode == "json: cannot decode into map[string]interface {}"
ErrDeadline == "context deadline exceeded"
NoErr == ""

Return(d, e) == [panic |-> FALSE, data |-> d, err |-> e]

\* json.NewDecoder(body).Decode(&data) with data a map[string]interface{}.
Decode(body) ==
    IF Len(body.json) = 0 THEN [err |-> ErrDecode, data |-> << >>]
    ELSE LET j == body.json[1] IN
         IF j.t = "object" THEN [err |-> NoErr, data |-> j.m]
         ELSE IF j.t = "null" THEN [err |-> NoErr, data |-> << >>]
         ELSE [err |-> ErrDecode, data |-> << >>]

getWeather(lat, lon, u) ==
    IF u.kind = "transport" THEN Return(<< >>, ErrTransport)
    ELSE LET dec == Decode(u) IN
    IF dec.err # NoErr THEN Return(<< >>, dec.err)
    ELSE LET data == dec.data
             wi == extractWeatherInfo(data) IN
    IF wi.panic THEN Panic
    ELSE LET visibility == extractVisibility(data) IN
    IF visibility.panic THEN Panic
    ELSE LET wind == extractWindInfo(data) IN
    IF wind.panic THEN Panic
    ELSE LET cloudCoverage == extractCloudCoverage(data) IN
    IF cloudCoverage.panic THEN Panic
    ELSE LET sun == extractSunriseSunset(data) IN
    IF sun.panic THEN Panic
    ELSE Return(<< [WeatherDescription |-> wi.val.description,
                    Temperature |-> FloatToStr(wi.val.temperature) \o " Celsius",
                    WeatherType |-> classifyWeather(wi.val.temperature),
                    Visibility |-> visibility.val,
                    WindSpeed |-> wind.val.speed,
                    WindDirection |-> wind.val.direction,
                    CloudCoverage |-> cloudCoverage.val,
                    Sunrise |-> sun.val.sunrise,
                    Sunset |-> sun.val.sunset] >>, NoErr)

(***************************************************************************)
(* Program constants.                                                      *)
(***************************************************************************)
Timeout == 5
ChanCap == 1
StatusOK == 200
StatusBadRequest == 400
StatusInternalServerError == 500

MsgLat == "Invalid latitude"
MsgLon == "Invalid longitude"
MsgFetch == "Failed to fetch weather data"

(***************************************************************************)
(* Requests.  r.URL.Query().Get(k) is "" when the parameter is missing.    *)
(***************************************************************************)
LatInputs == {"", "abc", "51.5"}
LonInputs == {"", "east", "5"}
Queries == [lat : LatInputs, lon : LonInputs]

\* ParseFloat that reads a missing parameter as zero.
ParseFloat_lenient(s) ==
    CASE s = "51.5" -> [err |-> FALSE, val |-> [v |-> 51, c |-> 50]]
      [] s = "5"    -> [err |-> FALSE, val |-> [v |-> 5, c |-> 0]]
      [] s = ""     -> [err |-> FALSE, val |-> [v |-> 0, c |-> 0]]
      [] OTHER      -> [err |-> TRUE, val |-> [v |-> 0, c |-> 0]]

\* strconv.ParseFloat(s, 64) on the strings above.
ParseFloat(s) ==
    CASE s = "51.5" -> [err |-> FALSE, val |-> [v |-> 51, c |-> 50]]
      [] s = "5"    -> [err |-> FALSE, val |-> [v |-> 5, c |-> 0]]
      [] OTHER      -> [err |-> TRUE, val |-> [v |-> 0, c |-> 0]]

(***************************************************************************)
(* Provider documents.                                                     *)
(***************************************************************************)
Doc(temp, vis) ==
    [weather |-> JArr(<< JObj([description |-> JStr("clear sky")]) >>),
     main |-> JObj([temp |-> temp]),
     visibility |-> vis,
     wind |-> JObj([speed |-> JNum(3, 10), deg |-> JNum(180, 0)]),
     clouds |-> JObj([all |-> JNum(40, 0)]),
     sys |-> JObj([sunrise |-> JNum(1700000000, 0), sunset |-> JNum(1700040000, 0)])]

Without(m, k) == [x \in DOMAIN m \ {k} |-> m[x]]

FixtureDoc == Doc(JNum(15, 30), JNum(8000, 0))
NoWindDoc == Without(FixtureDoc, "wind")
ApiErrorDoc == [cod |-> JNum(401, 0), message |-> JStr("Invalid API key")]

\* The answers the provider gives in the server specification.
Upstream ==
    {TransportFailure, Malformed, Body(<<JObj(FixtureDoc)>>),
     Body(<<JObj(NoWindDoc)>>)}

\* The answers the provider gives in the single-request specification.
Temps == {JNum(-5, -1), JNum(0, 0), JNum(9, 99), JNum(10, 0), JNum(10, 1),
          JNum(15, 30), JNum(25, 0), JNum(25, 1), JNum(31, 50)}
Visibilities == {JNum(0, 0), JNum(999, 0), JNum(999, 90), JNum(1000, 0),
                 JNum(1500, 0), JNum(1999, 0), JNum(10000, 0),
                 JNum(-999, 0), JNum(-1500, 0)}
WideUpstream ==
    {Body(<<JObj(Doc(t, v))>> ) : t \in Temps, v \in Visibilities}
      \cup {TransportFailure, Malformed, Body(<<JArr(<< >>)>>), Body(<<JNull>>),
            Body(<<JObj(ApiErrorDoc)>>),
            Body(<<JObj(Without(FixtureDoc, "visibility"))>>),
            Body(<<JObj([FixtureDoc EXCEPT !.wind = JObj([speed |-> JNum(0, 0)])])>>),
            Body(<<JObj([FixtureDoc EXCEPT !.weather = JArr(<< >>)])>>),
            Body(<<JObj([FixtureDoc EXCEPT !.main = JObj([temp |-> JStr("15.3")])])>>)}

(***************************************************************************)
(* State.                                                                  *)
(***************************************************************************)
NoCtx == -1
NoQuery == [lat |-> "", lon |-> ""]
NoReturn == [data |-> << >>, err |-> NoErr]
NoHist == [pendingAtExpiry |-> FALSE, sentBefore |-> FALSE]

Init ==
    /\ alive = TRUE
    /\ hpc = [r \in Requests |-> "idle"]
    /\ req = [r \in Requests |-> NoQuery]
    /\ elapsed = [r \in Requests |-> NoCtx]
    /\ wpc = [r \in Requests |-> "none"]
    /\ got = [r \in Requests |-> << >>]
    /\ wval = [r \in Requests |-> NoReturn]
    /\ ch = [r \in Requests |-> << >>]
    /\ errCh = [r \in Requests |-> << >>]
    /\ ret = [r \in Requests |-> NoReturn]
    /\ resp = [r \in Requests |-> << >>]
    /\ hist = [r \in Requests |-> NoHist]

\* http.Error(w, msg, code)
HttpError(msg, code) == [status |-> code, error |-> msg, json |-> << >>]

\* json.NewEncoder(w).Encode(weatherData): the struct tags name the keys.
Encode(d) ==
    [status |-> StatusOK, error |-> "",
     json |-> << [weather_condition |-> d.WeatherDescription,
                  temperature |-> d.Temperature,
                  weather_type |-> d.WeatherType,
                  visibility |-> d.Visibility,
                  wind_speed |-> d.WindSpeed,
                  wind_direction |-> d.WindDirection,
                  cloud_coverage |-> d.CloudCoverage,
                  sunrise |-> d.Sunrise,
                  sunset |-> d.Sunset] >>]

(***************************************************************************)
(* WeatherHandler, first part: a request arrives and lat is parsed.        *)
(***************************************************************************)
ParseLat(r) ==
    /\ alive
    /\ hpc[r] = "idle"
    /\ \E q \in Queries :
          /\ req' = [req EXCEPT ![r] = q]
          /\ IF ParseFloat(q.lat).err
             THEN /\ resp' = [resp EXCEPT ![r] = Append(@, HttpError(MsgLat, StatusBadRequest))]
                  /\ hpc' = [hpc EXCEPT ![r] = "done"]
             ELSE /\ hpc' = [hpc EXCEPT ![r] = "parseLon"]
                  /\ UNCHANGED resp
    /\ UNCHANGED <<alive, elapsed, wpc, got, wval, ch, errCh, ret, hist>>

(***************************************************************************)
(* WeatherHandler, second part: lon is parsed, the context is created and  *)
(* getWeatherWithContext makes its channels and starts the goroutine.      *)
(***************************************************************************)
ParseLon(r) ==
    /\ alive
    /\ hpc[r] = "parseLon"
    /\ IF ParseFloat(req[r].lon).err
       THEN /\ resp' = [resp EXCEPT ![r] = Append(@, HttpError(MsgLon, StatusBadRequest))]
            /\ hpc' = [hpc EXCEPT ![r] = "done"]
            /\ UNCHANGED <<elapsed, wpc>>
       ELSE /\ elapsed' = [elapsed EXCEPT ![r] = 0]
            /\ wpc' = [wpc EXCEPT ![r] = "upstream"]
            /\ hpc' = [hpc EXCEPT ![r] = "select"]
            /\ UNCHANGED resp
    /\ UNCHANGED <<alive, req, got, wval, ch, errCh, ret, hist>>

(***************************************************************************)
(* One second passes for the context of request r.                         *)
(***************************************************************************)
Tick(r) ==
    /\ alive
    /\ hpc[r] = "select"
    /\ elapsed[r] < MaxTime
    /\ elapsed' = [elapsed EXCEPT ![r] = @ + 1]
    /\ hist' = [hist EXCEPT ![r].pendingAtExpiry =
                    IF elapsed[r] + 1 = Timeout THEN wpc[r] = "upstream" ELSE @]
    /\ UNCHANGED <<alive, hpc, req, wpc, got, wval, ch, errCh, ret, resp>>

(***************************************************************************)
(* The goroutine: the upstream call returns u, getWeather finishes and its *)
(* outcome is sent on errCh or on ch; a send blocks while the channel is   *)
(* full.  A panic in this goroutine is recovered by nobody and ends the    *)
(* process.                                                                *)
(***************************************************************************)
\* A send on an unbuffered channel, with no receiver waiting.
CanSend_unbuffered(c) == Len(c) < 0

CanSend(c) == Len(c) < ChanCap

Worker(r, U) ==
    /\ alive
    /\ wpc[r] = "upstream"
    /\ \E u \in U :
          LET lat == ParseFloat(req[r].lat).val
              lon == ParseFloat(req[r].lon).val
              res == getWeather(lat, lon, u)
          IN /\ got' = [got EXCEPT ![r] = <<u>>]
             /\ IF res.panic
                THEN /\ wpc' = [wpc EXCEPT ![r] = "panicked"]
                     /\ alive' = FALSE
                     /\ UNCHANGED <<wval, ch, errCh, hist>>
                ELSE /\ IF res.err # NoErr
                        THEN /\ CanSend(errCh[r])
                             /\ errCh' = [errCh EXCEPT ![r] = Append(@, res.err)]
                             /\ UNCHANGED ch
                        ELSE /\ CanSend(ch[r])
                             /\ ch' = [ch EXCEPT ![r] = Append(@, res.data)]
                             /\ UNCHANGED errCh
                     /\ wval' = [wval EXCEPT ![r] = [data |-> res.data, err |-> res.err]]
                     /\ wpc' = [wpc EXCEPT ![r] = "done"]
                     /\ hist' = [hist EXCEPT ![r].sentBefore =
                                     hpc[r] = "select" /\ elapsed[r] < Timeout]
                     /\ UNCHANGED alive
    /\ UNCHANGED <<hpc, req, elapsed, ret, resp>>

(***************************************************************************)
(* The select of getWeatherWithContext and the rest of WeatherHandler.     *)
(* When several cases can proceed, select picks one of them at random.     *)
(***************************************************************************)
\* A context that expires one second late, and one that expires one second early.
CtxDone_late(r) == elapsed[r] > Timeout
CtxDone_early(r) == elapsed[r] >= Timeout - 1

CtxDone(r) == elapsed[r] >= Timeout

Ready(r) ==
    (IF CtxDone(r) THEN {"ctx"} ELSE {})
      \cup (IF Len(errCh[r]) > 0 THEN {"errCh"} ELSE {})
      \cup (IF Len(ch[r]) > 0 THEN {"ch"} ELSE {})

\* A handler that reports the cause of the failure to the client.
Respond_leak(rv) ==
    IF rv.err # NoErr THEN HttpError(rv.err, StatusInternalServerError)
    ELSE Encode(rv.data[1])

Respond(rv) ==
    IF rv.err # NoErr THEN HttpError(MsgFetch, StatusInternalServerError)
    ELSE Encode(rv.data[1])

HandlerSelect(r) ==
    /\ alive
    /\ hpc[r] = "select"
    /\ \E c \in Ready(r) :
          LET rv == CASE c = "ctx"   -> [data |-> << >>, err |-> ErrDeadline]
                      [] c = "errCh" -> [data |-> << >>, err |-> Head(errCh[r])]
                      [] c = "ch"    -> [data |-> Head(ch[r]), err |-> NoErr]
          IN /\ ret' = [ret EXCEPT ![r] = rv]
             /\ errCh' = [errCh EXCEPT ![r] = IF c = "errCh" THEN Tail(@) ELSE @]
             /\ ch' = [ch EXCEPT ![r] = IF c = "ch" THEN Tail(@) ELSE @]
             /\ resp' = [resp EXCEPT ![r] = Append(@, Respond(rv))]
    /\ hpc' = [hpc EXCEPT ![r] = "done"]
    /\ elapsed' = [elapsed EXCEPT ![r] = NoCtx]
    /\ UNCHANGED <<alive, req, wpc, got, wval, hist>>

(***************************************************************************)
(* The server: every request is served by its own goroutine.               *)
(***************************************************************************)
Next ==
    \E r \in Requests :
        \/ ParseLat(r)
        \/ ParseLon(r)
        \/ Tick(r)
        \/ Worker(r, Upstream)
        \/ HandlerSelect(r)

Spec == Init /\ [][Next]_vars

(***************************************************************************)
(* One request against a wide range of provider answers.                   *)
(***************************************************************************)
NextDocs ==
    \/ ParseLat(1)
    \/ ParseLon(1)
    \/ Tick(1)
    \/ Worker(1, WideUpstream)
    \/ HandlerSelect(1)

SpecDocs == Init /\ [][NextDocs]_vars

(***************************************************************************)
(* Properties.                                                             *)
(***************************************************************************)
FetchFailed == <<HttpError(MsgFetch, StatusInternalServerError)>>

\* The decoded document of request r, once its upstream call has returned one.
HasDoc(r) ==
    /\ got[r] # << >>
    /\ got[r][1].kind = "body"
    /\ Len(got[r][1].json) = 1
    /\ got[r][1].json[1].t = "object"
DocOf(r) == got[r][1].json[1].m

RequiredKeys == {"weather", "main", "visibility", "wind", "clouds", "sys"}
LacksField(m) == \E k \in RequiredKeys : k \notin DOMAIN m

\* getWeather of request r has returned a summary.
HasSummary(r) == wpc[r] = "done" /\ wval[r].err = NoErr

Hundredths(x) == x.v * 100 + x.c

\* C1: whenever the upstream response of a request is well-formed JSON that
\* lacks an expected field, the fetch goroutine ends up holding an error
\* value and no summary, the process keeps running, and a handler that has
\* answered has answered 500.
C1_ShapeErrorReachesHandler ==
    \A r \in Requests :
        (HasDoc(r) /\ LacksField(DocOf(r))) =>
            /\ alive
            /\ wpc[r] = "done"
            /\ wval[r].err # NoErr
            /\ wval[r].data = << >>
            /\ (hpc[r] = "done" => resp[r] = FetchFailed)

\* C2: no failure is fatal to the process: whenever some request has ended
\* in failure (a 400 or 500 response, or a fetch that failed), the server
\* process is still running.
RequestFailed(r) ==
    \/ wpc[r] = "panicked"
    \/ (wpc[r] = "done" /\ wval[r].err # NoErr)
    \/ (Len(resp[r]) > 0 /\ resp[r][1].status # StatusOK)

C2_NoFailureIsFatal ==
    (\E r \in Requests : RequestFailed(r)) => alive

NotNumeric == {"", "abc", "east"}

C5_InvalidParameters ==
    \A r \in Requests :
        /\ (hpc[r] # "idle" /\ req[r].lat \in NotNumeric) =>
              /\ hpc[r] = "done"
              /\ resp[r] = <<HttpError(MsgLat, StatusBadRequest)>>
              /\ wpc[r] = "none"
        /\ (hpc[r] \notin {"idle", "parseLon"} /\ req[r].lat \notin NotNumeric
               /\ req[r].lon \in NotNumeric) =>
              /\ hpc[r] = "done"
              /\ resp[r] = <<HttpError(MsgLon, StatusBadRequest)>>
              /\ wpc[r] = "none"

\* One request was refused for a non-numeric lat (with a numeric lon) and
\* another for a missing lon.
C5_Witness ==
    \E r1, r2 \in Requests :
        /\ req[r1] = [lat |-> "abc", lon |-> "5"]
        /\ resp[r1] = <<HttpError(MsgLat, StatusBadRequest)>>
        /\ req[r2] = [lat |-> "51.5", lon |-> ""]
        /\ resp[r2] = <<HttpError(MsgLon, StatusBadRequest)>>

\* C6: when the upstream call fails at the transport level or its body is
\* not JSON, getWeather returns an error and no summary, and a handler that
\* has answered has answered 500 with exactly "Failed to fetch weather
\* data", whatever the cause.
C6_FetchFailureGets500 ==
    \A r \in Requests :
        (got[r] # << >> /\ got[r][1] \in {TransportFailure, Malformed}) =>
            /\ wpc[r] = "done"
            /\ wval[r].err # NoErr
            /\ wval[r].data = << >>
            /\ (hpc[r] = "done" =>
                   /\ ret[r].data = << >>
                   /\ resp[r] = FetchFailed)

\* One handler received a transport error and another a decode error from
\* their goroutines, and both answered.
C6_Witness ==
    \E r1, r2 \in Requests :
        /\ got[r1] = <<TransportFailure>> /\ ret[r1].err = ErrTransport
        /\ hpc[r1] = "done"
        /\ got[r2] = <<Malformed>> /\ ret[r2].err = ErrDecode
        /\ hpc[r2] = "done"

\* C7: the weather type of every summary is cold when the temperature of
\* the document is at most 10, moderate when it is above 10 and at most 25,
\* and hot when it is above 25, whatever the other fields of the document.
C7_Classification ==
    \A r \in Requests :
        HasSummary(r) =>
            LET t == Hundredths(DocOf(r).main.m.temp)
                type == wval[r].data[1].WeatherType
            IN /\ (t <= 1000) <=> (type = "cold")
               /\ (1000 < t /\ t <= 2500) <=> (type = "moderate")
               /\ (t > 2500) <=> (type = "hot")

\* A summary was built from a document whose temperature is exactly 25.
C7_Witness ==
    \E r \in Requests :
        /\ HasSummary(r)
        /\ DocOf(r).main.m.temp = JNum(25, 0)
        /\ wval[r].data[1].WeatherType = "moderate"

\* C8: the visibility of every summary is "<k> KM" with k the visibility
\* of the document in meters divided by 1000 and truncated toward zero;
\* 0 and 999 give "0 KM", 1000 and 1999 give "1 KM", 10000 gives "10 KM".
C8_Visibility ==
    \A r \in Requests :
        HasSummary(r) =>
            LET m == Hundredths(DocOf(r).visibility)
                out == wval[r].data[1].Visibility
            IN /\ \E k \in -20..20 :
                     /\ out = IntToStr(k) \o " KM"
                     /\ \/ (m >= 0 /\ k * 100000 <= m /\ m < (k + 1) * 100000)
                        \/ (m <= 0 /\ (k - 1) * 100000 < m /\ m <= k * 100000)
               /\ (m \in {0, 99900}) => out = "0 KM"
               /\ (m \in {100000, 199900}) => out = "1 KM"
               /\ (m = 1000000) => out = "10 KM"

\* A summary was built from a document whose visibility is 1999 meters.
C8_Witness ==
    \E r \in Requests :
        /\ HasSummary(r)
        /\ DocOf(r).visibility = JNum(1999, 0)
        /\ wval[r].data[1].Visibility = "1 KM"

\* C9: every request outcome is all-or-nothing: a 200 response carries the
\* nine fields of the summary getWeather built from the upstream document,
\* a failed fetch yields no summary and a response without one, no request
\* gets more than one response, and a request that has not been answered
\* yet can still be answered.
SummaryKeys ==
    {"weather_condition", "temperature", "weather_type", "visibility",
     "wind_speed", "wind_direction", "cloud_coverage", "sunrise", "sunset"}

C9_AllOrNothing ==
    \A r \in Requests :
        /\ Len(resp[r]) <= 1
        /\ (Len(resp[r]) = 1 /\ resp[r][1].status = StatusOK) =>
              /\ HasDoc(r)
              /\ ~LacksField(DocOf(r))
              /\ DOMAIN resp[r][1].json[1] = SummaryKeys
        /\ (Len(resp[r]) = 1 /\ resp[r][1].status # StatusOK) =>
              resp[r][1].json = << >>
        /\ (wpc[r] = "done" /\ wval[r].err # NoErr) =>
              wval[r].data = << >>
        /\ (hpc[r] # "idle" /\ Len(resp[r]) = 0) => alive

\* C10: the fetch goroutine is never blocked by the absence of a receiver:
\* while its upstream call is outstanding, also after the handler has
\* returned, both channels have room for the send that follows; the two
\* channels of a request hold at most one message between them, and after
\* a deadline return the late value stays in its channel and the response
\* remains the 500 written at the deadline.
C10_AbandonedWorkerFinishes ==
    \A r \in Requests :
        /\ Len(ch[r]) <= ChanCap /\ Len(errCh[r]) <= ChanCap
        /\ Len(ch[r]) + Len(errCh[r]) <= 1
        /\ (wpc[r] = "upstream") => (CanSend(ch[r]) /\ CanSend(errCh[r]))
        /\ (hpc[r] = "done" /\ ret[r].err = ErrDeadline /\ wpc[r] = "done") =>
              /\ Len(ch[r]) + Len(errCh[r]) = 1
              /\ resp[r] = FetchFailed

\* A goroutine whose upstream call returned after the handler had answered
\* at the deadline has sent its value and terminated.
C10_Witness ==
    \E r \in Requests :
        /\ hpc[r] = "done"
        /\ ret[r].err = ErrDeadline
        /\ hist[r].pendingAtExpiry
        /\ wpc[r] = "done"
        /\ ~hist[r].sentBefore
        /\ Len(ch[r]) = 1

====
